---- MODULE Spec2Model ----
(***************************************************************************)
(* Model of models.py: the users / courses / videos / videos_courses       *)
(* tables, User.signup, User.authenticate, and the session (stage, flush,  *)
(* commit, rollback) and storage engine (NOT NULL, UNIQUE, FOREIGN KEY     *)
(* ... ON DELETE CASCADE) that the declarations of models.py configure.    *)
(*                                                                         *)
(* Text values are sequences over a small alphabet, so that a plaintext    *)
(* password and a stored hash are values of one kind and can be compared.  *)
(* Integer columns are naturals; None (SQL NULL) is 0, which is never a    *)
(* primary key (keys are assigned from 1).                                 *)
(***************************************************************************)
EXTENDS FiniteSets, Integers, Sequences, TLC

\* ------------------------------------------------------------------ bounds
\* Largest number of objects staged (added, not yet flushed) over all
\* sessions together.
MaxStaged == 2

\* Largest primary key a table's sequence hands out (caps the counters).
MaxId == 2

\* ------------------------------------------------------------------ inputs
None == 0

Sessions == {1, 2}

Usernames == {"alice", "bob"}

Emails == {"a@x", "b@x"}

\* the (email, username) pairs given to signup: two share the username,
\* two share the email, two share nothing
SignupIdentities ==
  {<<"a@x", "alice">>, <<"b@x", "alice">>, <<"a@x", "bob">>}

FirstNames == {"F"}

LastNames == {"L"}

ImageUrls == {"/static/images/default-pic.png"}

\* the characters of a password; 0 also stands for "$"
PwAlphabet == {0, 1}

\* per-call random salts of the hashing library
Salts == {0, 1}

\* plaintexts given to signup (non-empty: the form layer validates)
SignupPasswords == {<<0, 1>>}

\* plaintexts given to authenticate
AuthPasswords == {<<>>, <<1>>, <<0, 1>>}

AuthUsernames == Usernames

Titles == {"t1", "t2"}

\* positions of a video in a course
VideoSeqs == {1, 2}

\* values given for an integer foreign key: None, the keys in use, one more
Ids == 0 .. MaxId

VARIABLES
  users,            \* committed rows of table users
  courses,          \* committed rows of table courses
  videos,           \* committed rows of table videos
  videos_courses,   \* committed rows of table videos_courses
  nextId,           \* per table: the next primary key of its sequence
  pending,          \* per session: the objects added and not yet flushed
  failed,           \* per session: a flush failed and rollback() is due
  plain,            \* history: user id -> plaintext given to the signup
  ret               \* the last call and what it returned or raised

vars == <<users, courses, videos, videos_courses, nextId, pending, failed,
          plain, ret>>

tables == <<users, courses, videos, videos_courses, nextId>>

TableNames == {"users", "courses", "videos", "videos_courses"}

\* --------------------------------------------------------- password hashes
\* bijective numbering of the texts over PwAlphabet
RECURSIVE Code(_)
Code(s) ==
  IF s = <<>> THEN 0
  ELSE (s[Len(s)] + 1) + Cardinality(PwAlphabet) * Code(SubSeq(s, 1, Len(s) - 1))

\* the digest character: a deterministic function of salt and password
Digest(salt, password) ==
  Cardinality(PwAlphabet) + salt + Cardinality(Salts) * Code(password)

\* bcrypt.hashpw: "$" salt digest
hashpw(password, salt) == <<0, salt, Digest(salt, password)>>

\* bcrypt.generate_password_hash(password).decode('UTF-8'), salt drawn per call
generate_password_hash(password, salt) == hashpw(password, salt)

\* variant: re-hashes with a fixed salt instead of the one kept in pw_hash
check_password_hash_fixed_salt(pw_hash, password) ==
  hashpw(password, 0) = pw_hash

\* bcrypt.check_password_hash(pw_hash, password): re-hash with the salt kept
\* in pw_hash and compare
check_password_hash(pw_hash, password) == hashpw(password, pw_hash[2]) = pw_hash

\* ------------------------------------------------------------ return values
PyFalse == [type |-> "bool", val |-> FALSE]

PyNone == [type |-> "NoneType"]

UserVal(u) == [type |-> "User", row |-> u]

\* an exception; orig is the storage engine's error behind an IntegrityError
Raised(exc, orig) == [type |-> "raise", exc |-> exc, orig |-> orig]

NoCall == [op |-> "none"]

\* ------------------------------------------------------------------ storage
DB == [users |-> users, courses |-> courses, videos |-> videos,
       videos_courses |-> videos_courses, nextId |-> nextId]

\* variant: unique=True left off the email column
UserOkNoEmail(db, r) ==
  \A u \in db.users : u.username # r.username

\* users: username UNIQUE, email UNIQUE (every input is NOT NULL)
UserOk(db, r) ==
  /\ \A u \in db.users : u.username # r.username
  /\ \A u \in db.users : u.email # r.email

\* variant: the constraint object is built and never reaches the table
CourseOkUnattached(db, r) == TRUE

\* courses: UNIQUE (title, creator_id), models.py 120
CourseOk(db, r) ==
  \A c \in db.courses : ~(c.title = r.title /\ c.creator_id = r.creator_id)

\* variant: only UNIQUE (course_id, video_id, video_seq)
VideoCourseOkTripleOnly(db, r) ==
  \A l \in db.videos_courses :
    ~(/\ r.course_id # None /\ r.video_id # None
      /\ l.course_id = r.course_id /\ l.video_id = r.video_id
      /\ l.video_seq = r.video_seq)

\* videos_courses: UNIQUE (course_id, video_id, video_seq), models.py 199,
\* and UNIQUE (course_id, video_seq), models.py 201.  A NULL is distinct
\* from every value in a unique index.
VideoCourseOk(db, r) ==
  /\ \A l \in db.videos_courses :
       ~(/\ r.course_id # None /\ r.video_id # None
         /\ l.course_id = r.course_id /\ l.video_id = r.video_id
         /\ l.video_seq = r.video_seq)
  /\ \A l \in db.videos_courses :
       ~(/\ r.course_id # None
         /\ l.course_id = r.course_id /\ l.video_seq = r.video_seq)

\* nullable=False on an integer column
NotNullOk(e) == e.table = "courses" => e.row.creator_id # None

UniqueOk(db, e) ==
  CASE e.table = "users" -> UserOk(db, e.row)
    [] e.table = "courses" -> CourseOk(db, e.row)
    [] e.table = "videos" -> TRUE
    [] e.table = "videos_courses" -> VideoCourseOk(db, e.row)

\* db.ForeignKey: a foreign key that is not NULL names a row of the parent
ForeignKeyOk(db, e) ==
  CASE e.table = "users" -> TRUE
    [] e.table = "courses" -> \E u \in db.users : u.id = e.row.creator_id
    [] e.table = "videos" -> TRUE
    [] e.table = "videos_courses" ->
         /\ e.row.course_id # None =>
              \E c \in db.courses : c.id = e.row.course_id
         /\ e.row.video_id # None =>
              \E v \in db.videos : v.id = e.row.video_id

\* what the storage engine reports for an INSERT
Violation(db, e) ==
  IF ~NotNullOk(e) THEN "NotNullViolation"
  ELSE IF ~UniqueOk(db, e) THEN "UniqueViolation"
  ELSE IF ~ForeignKeyOk(db, e) THEN "ForeignKeyViolation"
  ELSE "none"

\* INSERT of one staged object: the table's sequence assigns the primary key
\* (an INSERT that fails is taken not to use up a key)
Insert(db, e) ==
  LET r == [e.row EXCEPT !.id = db.nextId[e.table]]
      n == [db.nextId EXCEPT ![e.table] = @ + 1]
  IN CASE e.table = "users" ->
            [db EXCEPT !.users = @ \cup {r}, !.nextId = n]
       [] e.table = "courses" ->
            [db EXCEPT !.courses = @ \cup {r}, !.nextId = n]
       [] e.table = "videos" ->
            [db EXCEPT !.videos = @ \cup {r}, !.nextId = n]
       [] e.table = "videos_courses" ->
            [db EXCEPT !.videos_courses = @ \cup {r}, !.nextId = n]

OfTable(q, t) == SelectSeq(q, LAMBDA e : e.table = t)

\* the unit of work inserts parents before children, each table in the
\* order the objects were added
FlushOrder(q) ==
  OfTable(q, "users") \o OfTable(q, "courses") \o OfTable(q, "videos")
    \o OfTable(q, "videos_courses")

\* flush: insert the objects one by one; the first violated constraint
\* aborts the whole transaction
RECURSIVE Flush(_, _)
Flush(db, q) ==
  IF q = <<>> THEN [ok |-> TRUE, db |-> db, orig |-> "none"]
  ELSE IF Violation(db, Head(q)) = "none"
  THEN Flush(Insert(db, Head(q)), Tail(q))
  ELSE [ok |-> FALSE, db |-> db, orig |-> Violation(db, Head(q))]

\* the plaintexts of the users a flush inserts, by the keys they get
RECURSIVE PlainOf(_, _)
PlainOf(q, id) ==
  IF q = <<>> THEN <<>>
  ELSE (id :> Head(q).plain) @@ PlainOf(Tail(q), id + 1)

Staged == Len(pending[1]) + Len(pending[2])

\* variant: the User is built with the plaintext (password=password)
SignupPlain(s, email, username, password, first_name, last_name, image_url, salt) ==
  LET user == [id |-> None, username |-> username, password |-> password,
               first_name |-> first_name, last_name |-> last_name,
               image_url |-> image_url, email |-> email]
  IN /\ Staged < MaxStaged
     /\ pending' = [pending EXCEPT ![s] =
                      Append(@, [table |-> "users", row |-> user,
                                 plain |-> password])]
     /\ ret' = [op |-> "signup", password |-> password,
                result |-> UserVal(user)]
     /\ UNCHANGED <<tables, failed, plain>>

\* variant: signup ends with db.session.commit() when the flush succeeds
SignupCommits(s, email, username, password, first_name, last_name, image_url, salt) ==
  LET hashed_pw == generate_password_hash(password, salt)
      user == [id |-> None, username |-> username, password |-> hashed_pw,
               first_name |-> first_name, last_name |-> last_name,
               image_url |-> image_url, email |-> email]
      q == Append(pending[s], [table |-> "users", row |-> user,
                               plain |-> password])
      f == Flush(DB, q)
  IN /\ Staged < MaxStaged
     /\ ret' = [op |-> "signup", password |-> password,
                result |-> UserVal(user)]
     /\ IF f.ok /\ ~failed[s]
        THEN /\ users' = f.db.users
             /\ nextId' = f.db.nextId
             /\ plain' = PlainOf(q, nextId["users"]) @@ plain
             /\ pending' = [pending EXCEPT ![s] = <<>>]
             /\ UNCHANGED <<courses, videos, videos_courses, failed>>
        ELSE /\ pending' = [pending EXCEPT ![s] = q]
             /\ UNCHANGED <<tables, failed, plain>>

\* ------------------------------------------------------------ User.signup
\* models.py 55-72: hash the password, build the User, session.add, return
Signup(s, email, username, password, first_name, last_name, image_url, salt) ==
  LET hashed_pw == generate_password_hash(password, salt)
      user == [id |-> None, username |-> username, password |-> hashed_pw,
               first_name |-> first_name, last_name |-> last_name,
               image_url |-> image_url, email |-> email]
  IN /\ Staged < MaxStaged
     /\ pending' = [pending EXCEPT ![s] =
                      Append(@, [table |-> "users", row |-> user,
                                 plain |-> password])]
     /\ ret' = [op |-> "signup", password |-> password,
                result |-> UserVal(user)]
     /\ UNCHANGED <<tables, failed, plain>>

\* ------------------------------------------------------ User.authenticate
\* variant: the query has no filter, cls.query.first()
first_unfiltered(username) ==
  IF users = {} THEN {}
  ELSE {CHOOSE u \in users : \A w \in users : u.id <= w.id}

\* cls.query.filter_by(username=username).first(): the set holding the row
\* found, or the empty set for None
first(username) ==
  LET found == {u \in users : u.username = username}
  IN IF found = {} THEN {}
     ELSE {CHOOSE u \in found : \A w \in found : u.id <= w.id}

\* variant: falls off the end (returns None) when no user was found
authenticate_none(username, password) ==
  LET user == first(username)
  IN IF user = {} THEN PyNone
     ELSE IF \E u \in user : check_password_hash(u.password, password)
     THEN UserVal(CHOOSE u \in user : TRUE)
     ELSE PyFalse

\* models.py 74-92
authenticate(username, password) ==
  LET user == first(username)
  IN IF /\ user # {}
        /\ \E u \in user : check_password_hash(u.password, password)
     THEN UserVal(CHOOSE u \in user : TRUE)
     ELSE PyFalse

\* a call of authenticate in a request of its own: the query reads the
\* committed rows
Authenticate(username, password) ==
  /\ ret' = [op |-> "authenticate", username |-> username,
             password |-> password,
             result |-> authenticate(username, password)]
  /\ UNCHANGED <<tables, pending, failed, plain>>

\* --------------------------------------------------------------- session
\* variant: the storage engine's error is caught and dropped
CommitSwallows(s) ==
  LET q == FlushOrder(pending[s])
      f == Flush(DB, q)
  IN IF failed[s]
     THEN /\ ret' = [op |-> "commit", session |-> s,
                     result |-> Raised("InvalidRequestError", "none")]
          /\ UNCHANGED <<tables, pending, failed, plain>>
     ELSE IF f.ok
     THEN /\ users' = f.db.users
          /\ courses' = f.db.courses
          /\ videos' = f.db.videos
          /\ videos_courses' = f.db.videos_courses
          /\ nextId' = f.db.nextId
          /\ plain' = PlainOf(OfTable(q, "users"), nextId["users"]) @@ plain
          /\ pending' = [pending EXCEPT ![s] = <<>>]
          /\ ret' = [op |-> "commit", session |-> s, result |-> PyNone]
          /\ UNCHANGED failed
     ELSE /\ failed' = [failed EXCEPT ![s] = TRUE]
          /\ ret' = [op |-> "commit", session |-> s, result |-> PyNone]
          /\ UNCHANGED <<tables, pending, plain>>

\* db.session.commit(): flush the staged objects and commit, or raise the
\* storage engine's error and leave the committed tables as they were
Commit(s) ==
  LET q == FlushOrder(pending[s])
      f == Flush(DB, q)
  IN IF failed[s]
     THEN /\ ret' = [op |-> "commit", session |-> s,
                     result |-> Raised("InvalidRequestError", "none")]
          /\ UNCHANGED <<tables, pending, failed, plain>>
     ELSE IF f.ok
     THEN /\ users' = f.db.users
          /\ courses' = f.db.courses
          /\ videos' = f.db.videos
          /\ videos_courses' = f.db.videos_courses
          /\ nextId' = f.db.nextId
          /\ plain' = PlainOf(OfTable(q, "users"), nextId["users"]) @@ plain
          /\ pending' = [pending EXCEPT ![s] = <<>>]
          /\ ret' = [op |-> "commit", session |-> s, result |-> PyNone]
          /\ UNCHANGED failed
     ELSE /\ failed' = [failed EXCEPT ![s] = TRUE]
          /\ ret' = [op |-> "commit", session |-> s,
                     result |-> Raised("IntegrityError", f.orig)]
          /\ UNCHANGED <<tables, pending, plain>>

\* db.session.rollback(): the staged objects are expunged
Rollback(s) ==
  /\ pending' = [pending EXCEPT ![s] = <<>>]
  /\ failed' = [failed EXCEPT ![s] = FALSE]
  /\ ret' = [op |-> "rollback", result |-> PyNone]
  /\ UNCHANGED <<tables, plain>>

\* ---------------------------------------------------------- specification
Init ==
  /\ users = {}
  /\ courses = {}
  /\ videos = {}
  /\ videos_courses = {}
  /\ nextId = [t \in TableNames |-> 1]
  /\ pending = [s \in Sessions |-> <<>>]
  /\ failed = [s \in Sessions |-> FALSE]
  /\ plain = <<>>
  /\ ret = NoCall

DoSignup ==
  \E s \in Sessions, who \in SignupIdentities,
     password \in SignupPasswords, first_name \in FirstNames,
     last_name \in LastNames, image_url \in ImageUrls, salt \in Salts :
    Signup(s, who[1], who[2], password, first_name, last_name, image_url, salt)

DoAuthenticate ==
  \E username \in AuthUsernames, password \in AuthPasswords :
    Authenticate(username, password)

DoCommit == \E s \in Sessions : Commit(s)

DoRollback == \E s \in Sessions : Rollback(s)

Next == DoSignup \/ DoAuthenticate \/ DoCommit \/ DoRollback

Spec == Init /\ [][Next]_vars

\* ------------------------------------------------- rows of the other tables
\* Course(title=..., creator_id=...), models.py 95-131
Course(title, creator_id) ==
  [id |-> None, title |-> title, description |-> None,
   creator_id |-> creator_id]

\* Video(...), models.py 134-172
Video(title) ==
  [id |-> None, title |-> title, description |-> None,
   yt_video_id |-> "yt", yt_channel_id |-> "ch"]

\* VideoCourse(course_id=..., video_id=..., video_seq=...), models.py 175-201
VideoCourse(course_id, video_id, video_seq) ==
  [id |-> None, course_id |-> course_id, video_id |-> video_id,
   video_seq |-> video_seq]

\* One request that adds one object and commits: the row is inserted, or
\* the storage engine's error is raised and the tables stay as they were
\* (the session is removed, hence rolled back, when the request ends).
Create(e) ==
  LET f == Flush(DB, <<e>>)
  IN /\ nextId[e.table] <= MaxId
     /\ IF f.ok
        THEN /\ users' = f.db.users
             /\ courses' = f.db.courses
             /\ videos' = f.db.videos
             /\ videos_courses' = f.db.videos_courses
             /\ nextId' = f.db.nextId
             /\ ret' = [op |-> "create", result |-> PyNone]
        ELSE /\ ret' = [op |-> "create",
                        result |-> Raised("IntegrityError", f.orig)]
             /\ UNCHANGED tables
     /\ UNCHANGED <<pending, failed, plain>>

CreateCourse(title, creator_id) ==
  Create([table |-> "courses", row |-> Course(title, creator_id)])

CreateVideo(title) ==
  Create([table |-> "videos", row |-> Video(title)])

CreateVideoCourse(course_id, video_id, video_seq) ==
  Create([table |-> "videos_courses",
          row |-> VideoCourse(course_id, video_id, video_seq)])

\* ------------------------------------------------ DELETE, ON DELETE CASCADE
\* courses.creator_id: ForeignKey('users.id', ondelete="cascade")
CoursesOfUsers(db, ids) == {c \in db.courses : c.creator_id \in ids}

\* videos_courses.course_id: ForeignKey('courses.id', ondelete="cascade")
LinksOfCourses(db, ids) == {l \in db.videos_courses : l.course_id \in ids}

\* videos_courses.video_id: ForeignKey('videos.id', ondelete="cascade")
LinksOfVideos(db, ids) == {l \in db.videos_courses : l.video_id \in ids}

KeysOf(rows) == {r.id : r \in rows}

\* variant: ondelete="cascade" left off videos_courses.course_id
DeleteCoursesNoCascade(db, ids) ==
  [db EXCEPT !.courses = {c \in @ : c.id \notin ids}]

\* DELETE FROM courses WHERE id IN ids
DeleteCourses(db, ids) ==
  [db EXCEPT !.courses = {c \in @ : c.id \notin ids},
             !.videos_courses = @ \ LinksOfCourses(db, ids)]

\* DELETE FROM users WHERE id IN ids
DeleteUsers(db, ids) ==
  LET d == DeleteCourses(db, KeysOf(CoursesOfUsers(db, ids)))
  IN [d EXCEPT !.users = {u \in @ : u.id \notin ids}]

\* DELETE FROM videos WHERE id IN ids
DeleteVideos(db, ids) ==
  [db EXCEPT !.videos = {v \in @ : v.id \notin ids},
             !.videos_courses = @ \ LinksOfVideos(db, ids)]

Store(db, what) ==
  /\ users' = db.users
  /\ courses' = db.courses
  /\ videos' = db.videos
  /\ videos_courses' = db.videos_courses
  /\ nextId' = db.nextId
  /\ ret' = [op |-> "delete", what |-> what]
  /\ UNCHANGED <<pending, failed, plain>>

DeleteUser(id) ==
  /\ \E u \in users : u.id = id
  /\ Store(DeleteUsers(DB, {id}), "users")

DeleteCourse(id) ==
  /\ \E c \in courses : c.id = id
  /\ Store(DeleteCourses(DB, {id}), "courses")

DeleteVideo(id) ==
  /\ \E v \in videos : v.id = id
  /\ Store(DeleteVideos(DB, {id}), "videos")

\* ------------------------------------- specifications of the other tables
\* a user as signup and a commit leave it
SignedUp(id, email, username, password, salt) ==
  [id |-> id, username |-> username,
   password |-> generate_password_hash(password, salt),
   first_name |-> "F", last_name |-> "L",
   image_url |-> "/static/images/default-pic.png", email |-> email]

\* two users have signed up
InitCourses ==
  /\ users = {SignedUp(1, "a@x", "alice", <<0, 1>>, 0),
              SignedUp(2, "b@x", "bob", <<0, 1>>, 1)}
  /\ courses = {}
  /\ videos = {}
  /\ videos_courses = {}
  /\ nextId = [t \in TableNames |-> IF t = "users" THEN 3 ELSE 1]
  /\ pending = [s \in Sessions |-> <<>>]
  /\ failed = [s \in Sessions |-> FALSE]
  /\ plain = (1 :> <<0, 1>>) @@ (2 :> <<0, 1>>)
  /\ ret = NoCall

DoCreateCourse ==
  \E title \in Titles, creator_id \in Ids : CreateCourse(title, creator_id)

DoDeleteUser == \E id \in Ids : DeleteUser(id)

DoDeleteCourse == \E id \in Ids : DeleteCourse(id)

DoDeleteVideo == \E id \in Ids : DeleteVideo(id)

DoCreateVideo == \E title \in Titles : CreateVideo(title)

NextCourses ==
  DoCreateCourse \/ DoCreateVideo \/ DoDeleteUser \/ DoDeleteCourse
    \/ DoDeleteVideo

SpecCourses == InitCourses /\ [][NextCourses]_vars

\* two users have signed up, each course has a creator, two videos exist
InitLinks ==
  /\ users = {SignedUp(1, "a@x", "alice", <<0, 1>>, 0),
              SignedUp(2, "b@x", "bob", <<0, 1>>, 1)}
  /\ \E c1 \in {1, 2}, c2 \in {1, 2} :
       courses = {[Course("t1", c1) EXCEPT !.id = 1],
                  [Course("t2", c2) EXCEPT !.id = 2]}
  /\ videos = {[Video("v1") EXCEPT !.id = 1], [Video("v2") EXCEPT !.id = 2]}
  /\ videos_courses = {}
  /\ nextId = [t \in TableNames |-> IF t = "videos_courses" THEN 1 ELSE 3]
  /\ pending = [s \in Sessions |-> <<>>]
  /\ failed = [s \in Sessions |-> FALSE]
  /\ plain = (1 :> <<0, 1>>) @@ (2 :> <<0, 1>>)
  /\ ret = NoCall

DoCreateVideoCourse ==
  \E course_id \in Ids, video_id \in Ids, video_seq \in VideoSeqs :
    CreateVideoCourse(course_id, video_id, video_seq)

NextLinks ==
  DoCreateVideoCourse \/ DoDeleteUser \/ DoDeleteCourse \/ DoDeleteVideo

SpecLinks == InitLinks /\ [][NextLinks]_vars

\* ------------------------------------------------------------- properties
StagedUsers(s) ==
  {pending[s][i] : i \in {j \in 1 .. Len(pending[s]) :
                            pending[s][j].table = "users"}}

\* C1: when a user with the given username is in the store and the given
\* password verifies against that user's stored hash, authenticate returns
\* that very user: not another user, not the failure value.
AuthenticateReturnsTheUser ==
  ret.op = "authenticate" =>
    \A u \in users :
      (u.username = ret.username
         /\ check_password_hash(u.password, ret.password))
        => ret.result = UserVal(u)

\* authenticate has returned a user while another user is in the store
AuthenticatedAmongTwo ==
  /\ ret.op = "authenticate"
  /\ ret.result.type = "User"
  /\ Cardinality(users) = 2

\* C2: authenticate returns the one value False, and raises nothing, both
\* when no user has the username and when a user has it and the password
\* does not verify.
AuthenticateFailsWithFalse ==
  ret.op = "authenticate" =>
    LET named == {u \in users : u.username = ret.username}
    IN /\ named = {} => ret.result = PyFalse
       /\ (named # {} /\ \A u \in named :
             ~check_password_hash(u.password, ret.password))
            => ret.result = PyFalse

\* authenticate was given the username of a user and a wrong password
WrongPasswordRejected ==
  /\ ret.op = "authenticate"
  /\ \E u \in users :
       u.username = ret.username
         /\ ~check_password_hash(u.password, ret.password)
  /\ ret.result = PyFalse

\* C3: the User signup returns has the salted hash of the plaintext in its
\* password field, never the plaintext; so has every user record made by
\* signup, staged or committed.
PasswordFieldHoldsHash ==
  /\ ret.op = "signup" =>
       /\ ret.result.type = "User"
       /\ ret.result.row.password # ret.password
       /\ \E salt \in Salts :
            ret.result.row.password = hashpw(ret.password, salt)
  /\ \A s \in Sessions : \A e \in StagedUsers(s) :
       /\ e.row.password # e.plain
       /\ \E salt \in Salts : e.row.password = hashpw(e.plain, salt)
  /\ \A u \in users :
       /\ u.password # plain[u.id]
       /\ \E salt \in Salts : u.password = hashpw(plain[u.id], salt)

\* signup has returned a user while an earlier one is committed
SignedUpBesideCommitted ==
  /\ ret.op = "signup"
  /\ users # {}

\* C4: signup stages the user and commits nothing; the tables change only
\* in a commit that succeeds, so a user that is rolled back never reaches
\* them.
SignupOnlyStages ==
  [][/\ ret'.op \in {"signup", "rollback"} => UNCHANGED tables
     /\ tables' # tables => (ret'.op = "commit" /\ ret'.result = PyNone)]_vars

\* signup has staged a user that the store, holding another, does not have
StagedNotStored ==
  /\ ret.op = "signup"
  /\ users # {}
  /\ \E s \in Sessions : \E e \in StagedUsers(s) :
       /\ e.row = ret.result.row
       /\ \A u \in users :
            u.username # e.row.username /\ u.email # e.row.email

\* C5: a user that signup(u, p) made and a commit stored is returned by a
\* later authenticate(u, p).
SignupThenAuthenticate ==
  ret.op = "authenticate" =>
    \A u \in users :
      (u.username = ret.username /\ plain[u.id] = ret.password)
        => ret.result = UserVal(u)

\* authenticate was given the plaintext of a committed signup
AuthenticatedWithSignupPassword ==
  /\ ret.op = "authenticate"
  /\ \E u \in users :
       /\ u.username = ret.username
       /\ plain[u.id] = ret.password
       /\ u.password[2] = 1
       /\ ret.result = UserVal(u)

\* C6: no two committed users share a username, and no two share an email,
\* however the sessions' signups and commits interleave.
UsersAreUnique ==
  \A u \in users : \A w \in users :
    u # w => (u.id # w.id /\ u.username # w.username /\ u.email # w.email)

\* a session's commit failed on a username that another one committed
LostTheUsername ==
  \E s \in Sessions :
    /\ failed[s]
    /\ \E e \in StagedUsers(s) : \E u \in users :
         u.username = e.row.username /\ u.email # e.row.email

HasDuplicate(s) ==
  \E e \in StagedUsers(s) : \E u \in users :
    u.username = e.row.username \/ u.email = e.row.email

\* C7: signup never reports a duplicate: it returns the staged user and
\* leaves the tables alone; the commit of a session holding a user whose
\* username or email is in the store raises the storage engine's uniqueness
\* error and leaves the tables as they were.
DuplicateSurfacesAtCommit ==
  [][/\ ret'.op = "signup" =>
          /\ ret'.result.type = "User"
          /\ UNCHANGED tables
     /\ (/\ ret'.op = "commit"
         /\ ~failed[ret'.session]
         /\ HasDuplicate(ret'.session)) =>
          /\ ret'.result = Raised("IntegrityError", "UniqueViolation")
          /\ UNCHANGED tables]_vars

\* a commit has raised on an email that is in the store
CommitRaisedOnEmail ==
  /\ ret.op = "commit"
  /\ ret.result = Raised("IntegrityError", "UniqueViolation")
  /\ \E e \in StagedUsers(ret.session) : \E u \in users :
       u.email = e.row.email /\ u.username # e.row.username

ReferencesIntact ==
  /\ \A c \in courses : \E u \in users : u.id = c.creator_id
  /\ \A l \in videos_courses :
       /\ l.course_id # None => \E c \in courses : c.id = l.course_id
       /\ l.video_id # None => \E v \in videos : v.id = l.video_id

CascadeStep ==
  \A id \in Ids :
    /\ DeleteUser(id) =>
         /\ users' = {u \in users : u.id # id}
         /\ courses' = {c \in courses : c.creator_id # id}
         /\ videos_courses' =
              {l \in videos_courses :
                 \A c \in courses : c.creator_id = id => l.course_id # c.id}
         /\ videos' = videos
    /\ DeleteCourse(id) =>
         /\ users' = users
         /\ courses' = {c \in courses : c.id # id}
         /\ videos_courses' = {l \in videos_courses : l.course_id # id}
         /\ videos' = videos
    /\ DeleteVideo(id) =>
         /\ users' = users
         /\ courses' = courses
         /\ videos' = {v \in videos : v.id # id}
         /\ videos_courses' = {l \in videos_courses : l.video_id # id}

SeqCollision(course_id, video_seq) ==
  \E l \in videos_courses :
    l.course_id = course_id /\ l.video_seq = video_seq

TitlesAreUniquePerCreator ==
  /\ [](\A c \in courses : \A d \in courses :
          (c # d /\ c.creator_id = d.creator_id) => c.title # d.title)
  /\ [][\A title \in Titles, creator_id \in Ids :
          (CreateCourse(title, creator_id)
             /\ \E c \in courses :
                  c.title = title /\ c.creator_id = creator_id)
            => /\ ret'.result = Raised("IntegrityError", "UniqueViolation")
               /\ UNCHANGED tables]_vars

\* a course was refused for its title while the creator's course is stored
TitleRefused ==
  /\ ret.op = "create"
  /\ ret.result = Raised("IntegrityError", "UniqueViolation")
  /\ \E c \in courses : \E u \in users : c.creator_id = u.id

====
